---- MODULE Spec2Model ----
(***************************************************************************)
(* Model of the projection engine of the investment calculator             *)
(* (src/script.js): buildRows, its input coercion (toFinite, toPct, the    *)
(* years clamp, the contribution-interest factor default), the yearly      *)
(* recurrence and round2.                                                  *)
(*                                                                         *)
(* JavaScript numbers are modelled by a scaled-down binary64: a finite     *)
(* number is a whole count n of units of 1/Scale with |n| <= MAX_VALUE,    *)
(* and there are the three non-finite values NaN, Infinity and -Infinity.  *)
(* Every arithmetic operation rounds its exact result to the nearest unit  *)
(* and overflows to +/-Infinity beyond MAX_VALUE, as IEEE 754 arithmetic   *)
(* does at Number.MAX_VALUE.  Signed zero is not distinguished.  Rows are   *)
(* compared as values: two fields that both hold NaN are the same value.   *)
(***************************************************************************)
EXTENDS Integers, Sequences, FiniteSets, TLC

\* ------------------------------------------------------------------------
\* Number format
\* ------------------------------------------------------------------------

\* Units per 1: the precision of the number format (three decimal digits).
Scale == 1000

\* Largest finite magnitude, in units (the format's Number.MAX_VALUE); a
\* whole number, as every binary64 of that size is.
MAX_VALUE == 2147483000

Fin(n) == [k |-> "fin", n |-> n]
NaN == [k |-> "nan", n |-> 0]
PosInf == [k |-> "inf", n |-> 0]
NegInf == [k |-> "ninf", n |-> 0]

\* The number with integer value i.
Int2Num(i) == Fin(i * Scale)

\* Number.isFinite(n)
IsFinite(x) == x.k = "fin"

Abs(i) == IF i < 0 THEN -i ELSE i

\* -1 for negative numbers, 1 for positive ones, 0 for zero and NaN.
Sign(x) ==
  CASE x.k = "nan" -> 0
    [] x.k = "inf" -> 1
    [] x.k = "ninf" -> -1
    [] OTHER -> IF x.n < 0 THEN -1 ELSE IF x.n > 0 THEN 1 ELSE 0

Signed(s, mag) == IF s < 0 THEN Fin(-mag) ELSE Fin(mag)

InfOfSign(s) == IF s < 0 THEN NegInf ELSE PosInf

\* Unary minus.
Neg(x) ==
  CASE x.k = "nan" -> NaN
    [] x.k = "inf" -> NegInf
    [] x.k = "ninf" -> PosInf
    [] OTHER -> Fin(-x.n)

\* a + b
Add(a, b) ==
  CASE a.k = "nan" \/ b.k = "nan" -> NaN
    [] a.k # "fin" /\ b.k # "fin" -> IF a.k = b.k THEN a ELSE NaN
    [] a.k # "fin" -> a
    [] b.k # "fin" -> b
    [] OTHER ->
         IF a.n > 0 /\ b.n > MAX_VALUE - a.n THEN PosInf
         ELSE IF a.n < 0 /\ b.n < (-MAX_VALUE) - a.n THEN NegInf
         ELSE Fin(a.n + b.n)

\* a - b
Sub(a, b) == Add(a, Neg(b))

\* Sum of two magnitudes; -1 stands for a magnitude above MAX_VALUE.
SatAdd(u, v) ==
  IF u < 0 \/ v < 0 THEN -1
  ELSE IF u > MAX_VALUE - v THEN -1
  ELSE u + v

\* Final rounding of a magnitude q with remainder r out of d: to nearest,
\* ties to even.
RoundNearest(q, r, d) ==
  IF q < 0 THEN -1
  ELSE IF r > d - r \/ (r = d - r /\ q % 2 = 1) THEN SatAdd(q, 1)
  ELSE q

\* Magnitude of x * y for magnitudes x, y (in units), computed by parts so
\* that no intermediate exceeds MAX_VALUE; -1 on overflow.
MulMag(x, y) ==
  LET xh == x \div Scale
      xl == x % Scale
      yh == y \div Scale
      yl == y % Scale
  IN IF xh > 0 /\ yh > (MAX_VALUE \div Scale) \div xh THEN -1
     ELSE LET whole == SatAdd(SatAdd(xh * yh * Scale, xh * yl), xl * yh)
              low == xl * yl
          IN RoundNearest(SatAdd(whole, low \div Scale), low % Scale, Scale)

\* a * b
Mul(a, b) ==
  CASE a.k = "nan" \/ b.k = "nan" -> NaN
    [] a.k # "fin" \/ b.k # "fin" ->
         IF Sign(a) * Sign(b) = 0 THEN NaN ELSE InfOfSign(Sign(a) * Sign(b))
    [] OTHER ->
         LET m == MulMag(Abs(a.n), Abs(b.n))
             s == Sign(a) * Sign(b)
         IN IF m < 0 THEN InfOfSign(s) ELSE Signed(s, m)

\* The next decimal digit of r / y for 0 <= r < y: the largest d with
\* d * y <= 10 * r, found without forming 10 * r.
NextDigit(r, y) ==
  LET fits(d) == d * (y \div 10) + (d * (y % 10) + 9) \div 10 <= r
  IN IF fits(1) THEN CHOOSE d \in 1..9 : fits(d) /\ (d = 9 \/ ~fits(d + 1))
     ELSE 0

\* 10 * r - d * y for the digit d of NextDigit(r, y).
NextRem(r, y, d) == 10 * (r - d * (y \div 10)) - d * (y % 10)

\* The digits of r / y of weight w, w/10, ... down to one unit, by long
\* division: <<their value in units, the remainder>>.
RECURSIVE FracDigits(_, _, _)
FracDigits(r, y, w) ==
  IF w = 0 THEN <<0, r>>
  ELSE LET d == NextDigit(r, y)
           rest == FracDigits(NextRem(r, y, d), y, w \div 10)
       IN <<d * w + rest[1], rest[2]>>

\* Magnitude of x / y for magnitudes x >= 0 and y > 0: r * Scale is formed
\* when it fits, and the digits come from long division otherwise.
DivMag(x, y) ==
  LET q == x \div y
      r == x % y
  IN IF q > MAX_VALUE \div Scale THEN -1
     ELSE IF y <= MAX_VALUE \div Scale
     THEN LET f == r * Scale
          IN RoundNearest(SatAdd(q * Scale, f \div y), f % y, y)
     ELSE LET fd == FracDigits(r, y, Scale \div 10)
          IN RoundNearest(SatAdd(q * Scale, fd[1]), fd[2], y)

\* a / b
Div(a, b) ==
  CASE a.k = "nan" \/ b.k = "nan" -> NaN
    [] a.k # "fin" /\ b.k # "fin" -> NaN
    [] a.k # "fin" -> IF Sign(b) < 0 THEN Neg(a) ELSE a
    [] b.k # "fin" -> Fin(0)
    [] b.n = 0 -> IF a.n = 0 THEN NaN ELSE InfOfSign(Sign(a))
    [] OTHER ->
         LET m == DivMag(Abs(a.n), Abs(b.n))
             s == Sign(a) * Sign(b)
         IN IF m < 0 THEN InfOfSign(s) ELSE Signed(s, m)

\* a < b (false when either is NaN)
Lt(a, b) ==
  CASE a.k = "nan" \/ b.k = "nan" -> FALSE
    [] a.k = "inf" -> FALSE
    [] b.k = "ninf" -> FALSE
    [] a.k = "ninf" -> TRUE
    [] b.k = "inf" -> TRUE
    [] OTHER -> a.n < b.n

\* a <= b (false when either is NaN)
Le(a, b) == Lt(a, b) \/ (a.k # "nan" /\ a = b)

\* Math.floor(x)
MathFloor(x) == IF x.k = "fin" THEN Fin((x.n \div Scale) * Scale) ELSE x

\* Math.round(x): the nearest integer, a half going towards +Infinity.
MathRound(x) ==
  IF x.k # "fin" THEN x
  ELSE Fin(((x.n + Scale \div 2) \div Scale) * Scale)

\* Math.min(a, b)
MathMin(a, b) ==
  IF a.k = "nan" \/ b.k = "nan" THEN NaN ELSE IF Lt(b, a) THEN b ELSE a

\* Math.max(a, b)
MathMax(a, b) ==
  IF a.k = "nan" \/ b.k = "nan" THEN NaN ELSE IF Lt(a, b) THEN b ELSE a

\* ------------------------------------------------------------------------
\* JavaScript values and Number(v)
\* ------------------------------------------------------------------------

\* A value is undefined, null, a string (a sequence of characters) or a
\* number.
Undefined == [t |-> "undefined", s |-> <<>>, v |-> NaN]
Null == [t |-> "null", s |-> <<>>, v |-> NaN]
Str(chars) == [t |-> "string", s |-> chars, v |-> NaN]
NumV(x) == [t |-> "number", s |-> <<>>, v |-> x]

IsDigit(c) == c \in {"0", "1", "2", "3", "4", "5", "6", "7", "8", "9"}

DigitVal(c) ==
  CASE c = "0" -> 0 [] c = "1" -> 1 [] c = "2" -> 2 [] c = "3" -> 3
    [] c = "4" -> 4 [] c = "5" -> 5 [] c = "6" -> 6 [] c = "7" -> 7
    [] c = "8" -> 8 [] c = "9" -> 9

IsWhite(c) == c \in {" ", "\t", "\n"}

RECURSIVE TrimLeft(_)
TrimLeft(cs) ==
  IF cs # <<>> /\ IsWhite(Head(cs)) THEN TrimLeft(Tail(cs)) ELSE cs

RECURSIVE TrimRight(_)
TrimRight(cs) ==
  IF cs # <<>> /\ IsWhite(cs[Len(cs)])
  THEN TrimRight(SubSeq(cs, 1, Len(cs) - 1))
  ELSE cs

AllDigits(cs) == \A i \in 1..Len(cs) : IsDigit(cs[i])

\* Index of the first "." of cs, or Len(cs) + 1.
DotIndex(cs) ==
  IF \E i \in 1..Len(cs) : cs[i] = "."
  THEN CHOOSE i \in 1..Len(cs) : cs[i] = "." /\ \A j \in 1..(i - 1) : cs[j] # "."
  ELSE Len(cs) + 1

\* Whole part of a digit sequence, in units; -1 above MAX_VALUE.
RECURSIVE WholeMag(_, _)
WholeMag(ds, acc) ==
  IF ds = <<>> THEN acc * Scale
  ELSE IF acc > ((MAX_VALUE \div Scale) - DigitVal(Head(ds))) \div 10 THEN -1
  ELSE WholeMag(Tail(ds), acc * 10 + DigitVal(Head(ds)))

\* Fraction digits of weight w, w/10, ... down to one unit, in units.
RECURSIVE FracMag(_, _)
FracMag(ds, w) ==
  IF ds = <<>> \/ w = 0 THEN 0
  ELSE DigitVal(Head(ds)) * w + FracMag(Tail(ds), w \div 10)

\* The fraction digits below one unit: those FracMag does not count.
RECURSIVE DropDigits(_, _)
DropDigits(ds, w) ==
  IF ds = <<>> \/ w = 0 THEN ds ELSE DropDigits(Tail(ds), w \div 10)

\* The dropped digits as a remainder out of 20: twice the first digit, plus
\* one when a later digit is not zero.
TailRem(ds) ==
  IF ds = <<>> THEN 0
  ELSE 2 * DigitVal(Head(ds))
       + (IF \E i \in 2..Len(ds) : ds[i] # "0" THEN 1 ELSE 0)

\* Magnitude of an unsigned decimal literal (digits, optional "." and
\* digits, at least one digit), in units; -1 above MAX_VALUE, -2 when cs is
\* not such a literal.
DecimalMag(cs) ==
  LET d == DotIndex(cs)
      whole == SubSeq(cs, 1, d - 1)
      frac == SubSeq(cs, d + 1, Len(cs))
  IN IF ~(AllDigits(whole) /\ AllDigits(frac)) \/ Len(whole) + Len(frac) = 0
     THEN -2
     ELSE RoundNearest(SatAdd(WholeMag(whole, 0), FracMag(frac, Scale \div 10)),
                       TailRem(DropDigits(frac, Scale \div 10)), 20)

InfinityChars == <<"I", "n", "f", "i", "n", "i", "t", "y">>

\* Number(string): a blank string is 0; a decimal literal, optionally
\* signed, is its value; anything else is NaN.  (Exponents and the 0x, 0o,
\* 0b forms are left out of the input alphabet.)
StringToNumber(chars) ==
  LET cs == TrimRight(TrimLeft(chars))
      signed == cs # <<>> /\ Head(cs) \in {"+", "-"}
      s == IF signed /\ Head(cs) = "-" THEN -1 ELSE 1
      body == IF signed THEN Tail(cs) ELSE cs
  IN IF cs = <<>> THEN Fin(0)
     ELSE IF body = InfinityChars THEN InfOfSign(s)
     ELSE LET m == DecimalMag(body)
          IN IF m = -2 THEN NaN
             ELSE IF m = -1 THEN InfOfSign(s)
             ELSE Signed(s, m)

\* Number(v)
ToNumber(val) ==
  CASE val.t = "undefined" -> NaN
    [] val.t = "null" -> Fin(0)
    [] val.t = "string" -> StringToNumber(val.s)
    [] OTHER -> val.v

\* ------------------------------------------------------------------------
\* Parameter records
\* ------------------------------------------------------------------------

Fields ==
  {"startingCapital", "incomeMonthly", "expensesMonthly", "incomeGrowthPct",
   "returnPct", "inflationPct", "years", "contributionInterestFactor"}

\* p.f: a property the record does not have reads as undefined.
Get(p, f) == IF f \in DOMAIN p THEN p[f] ELSE Undefined

\* The record q with property f set to v.
WithField(q, f, v) ==
  [g \in DOMAIN q \cup {f} |-> IF g = f THEN v ELSE q[g]]

\* ------------------------------------------------------------------------
\* buildRows
\* ------------------------------------------------------------------------

\* Mutant of toFinite: Number(v) || fb, which falls back on NaN and on 0 only.
toFinite_orFallback(v, fb) ==
  LET n == ToNumber(v) IN IF n.k = "nan" \/ n = Fin(0) THEN fb ELSE n

\* toFinite(v, fb)
toFinite(v, fb) ==
  LET n == ToNumber(v) IN IF IsFinite(n) THEN n ELSE fb

\* toPct(v): toFinite with its default fallback 0, over 100
toPct(v) == Div(toFinite(v, Fin(0)), Int2Num(100))

\* Number.EPSILON (2^-52) is below half a unit of this format at every
\* magnitude: it is the number that x + EPSILON rounds back to x.
EPSILON == Fin(0)

\* round2(x)
round2(x) ==
  Div(MathRound(Mul(Add(x, EPSILON), Int2Num(100))), Int2Num(100))

\* Mutant of YearsOf: the lower clamp Math.max(1, ...) is missing.
YearsOf_noLowerClamp(p) ==
  MathMin(Int2Num(60), MathFloor(toFinite(Get(p, "years"), Int2Num(1))))

\* const years = Math.max(1, Math.min(60, Math.floor(toFinite(p.years, 1))))
YearsOf(p) ==
  MathMax(Int2Num(1),
          MathMin(Int2Num(60),
                  MathFloor(toFinite(Get(p, "years"), Int2Num(1)))))

\* Mutant of FactorOf: an absent factor goes through toFinite(v, 0) like any
\* other value.
FactorOf_noDefault(p) == toFinite(Get(p, "contributionInterestFactor"), Fin(0))

\* Mutant of FactorOf: a factor that is not finite falls back to 1.
FactorOf_invalidIsOne(p) ==
  LET v == Get(p, "contributionInterestFactor")
  IN IF v.t \in {"undefined", "null"} \/ (v.t = "string" /\ v.s = <<>>)
     THEN Int2Num(1)
     ELSE toFinite(v, Int2Num(1))

\* const k = p.contributionInterestFactor == null || ... === "" ? 1 : ...
FactorOf(p) ==
  LET v == Get(p, "contributionInterestFactor")
  IN IF v.t \in {"undefined", "null"} \/ (v.t = "string" /\ v.s = <<>>)
     THEN Int2Num(1)
     ELSE toFinite(v, Fin(0))

\* The locals of buildRows when its loop is first reached.
buildRowsEntry(p) ==
  [rows |-> <<>>,
   capitalStart |-> toFinite(Get(p, "startingCapital"), Fin(0)),
   incomeMonthly |-> toFinite(Get(p, "incomeMonthly"), Fin(0)),
   expensesMonthly |-> toFinite(Get(p, "expensesMonthly"), Fin(0)),
   gIncome |-> toPct(Get(p, "incomeGrowthPct")),
   r |-> toPct(Get(p, "returnPct")),
   infl |-> toPct(Get(p, "inflationPct")),
   years |-> YearsOf(p),
   k |-> FactorOf(p),
   y |-> 1]

\* Mutant of LoopCond: the loop runs one more time (y <= years + 1).
LoopCond_oneMore(f) == Le(Int2Num(f.y), Add(f.years, Int2Num(1)))

\* y <= years
LoopCond(f) == Le(Int2Num(f.y), f.years)

\* Mutant of FloorAtZero: the floor is missing.
FloorAtZero_missing(x) == x

\* if (capitalEnd < 0) capitalEnd = 0
FloorAtZero(x) == IF Lt(x, Fin(0)) THEN Fin(0) ELSE x

\* Mutant of YearFigures: the contribution is not annualised (the * 12 is
\* missing).
YearFigures_monthlyContribution(f) ==
  LET deltaMonthly == Sub(f.incomeMonthly, f.expensesMonthly)
      contribution == deltaMonthly
      interestOnStart == Mul(f.capitalStart, f.r)
      interestOnContribution == Mul(Mul(contribution, f.r), f.k)
  IN [deltaMonthly |-> deltaMonthly,
      contribution |-> contribution,
      interestOnStart |-> interestOnStart,
      interestOnContribution |-> interestOnContribution,
      capitalEnd |->
        FloorAtZero(Add(Add(Add(f.capitalStart, contribution),
                            interestOnStart),
                        interestOnContribution))]

\* Mutant of YearFigures: deltaMonthly is the difference of the rounded
\* income and the rounded expenses.
YearFigures_deltaOfRounded(f) ==
  LET deltaMonthly == Sub(round2(f.incomeMonthly), round2(f.expensesMonthly))
      contribution == Mul(deltaMonthly, Int2Num(12))
      interestOnStart == Mul(f.capitalStart, f.r)
      interestOnContribution == Mul(Mul(contribution, f.r), f.k)
  IN [deltaMonthly |-> deltaMonthly,
      contribution |-> contribution,
      interestOnStart |-> interestOnStart,
      interestOnContribution |-> interestOnContribution,
      capitalEnd |->
        FloorAtZero(Add(Add(Add(f.capitalStart, contribution),
                            interestOnStart),
                        interestOnContribution))]

\* The figures of the year, unrounded (lines 649-657).
YearFigures(f) ==
  LET deltaMonthly == Sub(f.incomeMonthly, f.expensesMonthly)
      contribution == Mul(deltaMonthly, Int2Num(12))
      interestOnStart == Mul(f.capitalStart, f.r)
      interestOnContribution == Mul(Mul(contribution, f.r), f.k)
  IN [deltaMonthly |-> deltaMonthly,
      contribution |-> contribution,
      interestOnStart |-> interestOnStart,
      interestOnContribution |-> interestOnContribution,
      capitalEnd |->
        FloorAtZero(Add(Add(Add(f.capitalStart, contribution),
                            interestOnStart),
                        interestOnContribution))]

\* The row pushed for the year (lines 659-669).
EmitRow(f, v) ==
  [year |-> f.y,
   incomeMonthly |-> round2(f.incomeMonthly),
   expensesMonthly |-> round2(f.expensesMonthly),
   deltaMonthly |-> round2(v.deltaMonthly),
   contribution |-> round2(v.contribution),
   capitalStart |-> round2(f.capitalStart),
   interestOnStart |-> round2(v.interestOnStart),
   interestOnContribution |-> round2(v.interestOnContribution),
   capitalEnd |-> round2(v.capitalEnd)]

\* Mutant of LoopBody: capitalStart is not advanced (line 671 is missing).
LoopBody_noCarry(f) ==
  LET v == YearFigures(f)
  IN [f EXCEPT !.rows = Append(f.rows, EmitRow(f, v)),
               !.incomeMonthly = Mul(f.incomeMonthly, Add(Int2Num(1), f.gIncome)),
               !.expensesMonthly = Mul(f.expensesMonthly, Add(Int2Num(1), f.infl)),
               !.y = f.y + 1]

\* Mutant of LoopBody: growth and inflation are applied before the row of
\* the year is pushed.
LoopBody_growFirst(f) ==
  LET g == [f EXCEPT
              !.incomeMonthly = Mul(f.incomeMonthly, Add(Int2Num(1), f.gIncome)),
              !.expensesMonthly = Mul(f.expensesMonthly, Add(Int2Num(1), f.infl))]
      v == YearFigures(g)
  IN [g EXCEPT !.rows = Append(g.rows, EmitRow(g, v)),
               !.capitalStart = v.capitalEnd,
               !.y = g.y + 1]

\* Mutant of LoopBody: the floor applies to the pushed row only, and the
\* deficit is carried into the next year.
LoopBody_carryDeficit(f) ==
  LET v == YearFigures(f)
  IN [f EXCEPT !.rows = Append(f.rows, EmitRow(f, v)),
               !.capitalStart =
                 Add(Add(Add(f.capitalStart, v.contribution), v.interestOnStart),
                     v.interestOnContribution),
               !.incomeMonthly = Mul(f.incomeMonthly, Add(Int2Num(1), f.gIncome)),
               !.expensesMonthly = Mul(f.expensesMonthly, Add(Int2Num(1), f.infl)),
               !.y = f.y + 1]

\* Mutant of LoopBody: the capital carried on is the rounded capitalEnd of
\* the pushed row.
LoopBody_carryRounded(f) ==
  LET v == YearFigures(f)
  IN [f EXCEPT !.rows = Append(f.rows, EmitRow(f, v)),
               !.capitalStart = round2(v.capitalEnd),
               !.incomeMonthly = Mul(f.incomeMonthly, Add(Int2Num(1), f.gIncome)),
               !.expensesMonthly = Mul(f.expensesMonthly, Add(Int2Num(1), f.infl)),
               !.y = f.y + 1]

\* One iteration of the loop: the locals after it, y++ included.
LoopBody(f) ==
  LET v == YearFigures(f)
  IN [f EXCEPT !.rows = Append(f.rows, EmitRow(f, v)),
               !.capitalStart = v.capitalEnd,
               !.incomeMonthly = Mul(f.incomeMonthly, Add(Int2Num(1), f.gIncome)),
               !.expensesMonthly = Mul(f.expensesMonthly, Add(Int2Num(1), f.infl)),
               !.y = f.y + 1]

RECURSIVE RunLoop(_)
RunLoop(f) == IF LoopCond(f) THEN RunLoop(LoopBody(f)) ELSE f.rows

\* buildRows(p): the rows one call returns.
buildRows(p) == RunLoop(buildRowsEntry(p))

\* ------------------------------------------------------------------------
\* Inputs
\* ------------------------------------------------------------------------

\* Largest whole number of years among the inputs (above the clamp at 60).
MaxYearsInput == 61

\* Marks a property left out of a parameter record.
Absent == [t |-> "absent", s |-> <<>>, v |-> NaN]

\* The record with the given properties, those marked Absent left out.
MkParams(sc, im, em, ig, rp, ip, ys, cf) ==
  LET all == [startingCapital |-> sc, incomeMonthly |-> im,
              expensesMonthly |-> em, incomeGrowthPct |-> ig,
              returnPct |-> rp, inflationPct |-> ip, years |-> ys,
              contributionInterestFactor |-> cf]
  IN [f \in {g \in Fields : all[g] # Absent} |-> all[f]]

\* {}
EmptyParams == MkParams(Absent, Absent, Absent, Absent, Absent, Absent, Absent, Absent)

\* Every property holding the same value.
Uniform(v) == MkParams(v, v, v, v, v, v, v, v)

N(i) == NumV(Int2Num(i))
\* A number given in thousandths.
Milli(m) == NumV(Fin((m * Scale) \div 1000))

EmptyString == Str(<<>>)
BlankString == Str(<<" ">>)
NonNumericString == Str(<<"a", "b", "c">>)

\* Values no property converts to a finite number from.
NotFiniteValues ==
  {Undefined, NumV(NaN), NonNumericString, NumV(PosInf), NumV(NegInf),
   Str(<<"1", ".", "2", ".", "3">>)}

\* Values of years.
YearsValues ==
  {Absent, Null, EmptyString, BlankString, N(-3), N(0), Milli(500), N(1),
   N(2), Milli(2500), Str(<<"2", ".", "5">>), Str(<<" ", "3", " ">>),
   Str(<<"-", "1">>), N(3), N(59), N(60), N(MaxYearsInput),
   N(10 * MaxYearsInput), Str(<<"6", "1">>)}
  \cup NotFiniteValues

\* Values of contributionInterestFactor.
FactorValues ==
  {Absent, Null, EmptyString, BlankString, N(0), Milli(500), N(1),
   Str(<<"0", ".", "5">>), N(-1)}
  \cup NotFiniteValues

\* The horizon varies, over small amounts that stay finite for 60 years.
YearsInputs ==
  {MkParams(sc, N(10), em, ig, N(1), N(0), ys, Absent) :
     sc \in {N(0), N(500)}, em \in {N(5), N(20)}, ig \in {N(0), N(1)},
     ys \in YearsValues}

\* The amounts, the rates and the factor vary, over one to three years.
ArithInputs ==
  {MkParams(sc, im, em, ig, rp, N(5), ys, cf) :
     sc \in {N(0), Milli(500005), N(-100)},
     im \in {N(100), Str(<<"5", "8", ".", "1", "2", "5">>)},
     em \in {N(40), N(200)},
     ig \in {N(10), N(-50)},
     rp \in {N(15), Milli(2500), N(0), N(-50)},
     ys \in {N(1), N(2), N(3)},
     cf \in FactorValues}

\* Scenario A of the specification (runTests: "Year 1 basic math").
ScenarioA ==
  MkParams(N(0), N(5589), N(4000), N(10), N(15), N(5), N(1), Milli(500))

\* runTests: "Negative delta withdraws from capital (floored at 0)".
ScenarioB ==
  MkParams(N(5000), N(1000), N(2000), N(0), N(10), N(0), N(1), Milli(500))

\* Scenario C of the specification (runTests: "Year 2
\* growth/inflation application").
ScenarioC ==
  MkParams(N(0), N(5589), N(4000), N(10), N(0), N(5), N(2), N(0))

\* runTests: "Coerces NaN/blank inputs to finite numbers".
ScenarioD ==
  MkParams(NumV(NaN), EmptyString, Undefined, EmptyString, EmptyString, Null,
           EmptyString, EmptyString)

\* Records that are empty, partly filled, or malformed in every property.
MalformedInputs ==
  {EmptyParams, ScenarioD}
  \cup {Uniform(v) : v \in NotFiniteValues \cup {Null, EmptyString, BlankString}}
  \cup {MkParams(sc, im, em, ig, rp, ip, ys, cf) :
          sc \in {Absent, N(500)}, im \in {Absent, N(100)},
          em \in {Absent, N(40)}, ig \in {Absent, N(10)},
          rp \in {Absent, N(15)}, ip \in {Absent, N(5)},
          ys \in {Absent, N(2)}, cf \in {Absent, Milli(500)}}
  \cup {MkParams(sc, im, em, ig, rp, ip, ys, cf) :
          sc \in {Null, NonNumericString}, im \in {EmptyString, NumV(NaN)},
          em \in {Null, NumV(PosInf)}, ig \in {BlankString, Undefined},
          rp \in {Null, NonNumericString}, ip \in {EmptyString, NumV(NaN)},
          ys \in {Null, NonNumericString}, cf \in {EmptyString, NumV(NaN)}}

\* Finite amounts and rates near the largest finite number.
LargeInputs ==
  {MkParams(sc, im, em, N(0), rp, N(0), ys, cf) :
     sc \in {N(0), N(30000), N(2000000)},
     im \in {N(0), N(2000000)},
     em \in {N(0), N(2000000)},
     rp \in {N(0), N(100), N(-100), N(2000000)},
     ys \in {Absent, N(2)},
     cf \in {Absent, N(0)}}

\* Amounts with a digit below the cent, over one to three years.
RoundingInputs ==
  {MkParams(sc, im, em, N(0), N(50), N(0), ys, cf) :
     sc \in {N(0), Milli(100004)},
     im \in {N(0), Milli(1005)},
     em \in {N(0), Milli(2)},
     ys \in {N(1), N(2), N(3)},
     cf \in {Absent, N(0)}}

\* A deficit in year 1 that empties the capital, then an income that has
\* doubled and exceeds the expenses.
RecoveryInputs ==
  {MkParams(N(500), N(100), N(150), N(100), N(10), N(0), N(3), cf) :
     cf \in {Absent, Milli(500)}}

\* One record holding each kind of value toFinite has to handle: NaN, a
\* numeric string, undefined, the empty string, a finite number and null.
CoercionInput ==
  MkParams(NumV(NaN), Str(<<"5", "8", ".", "1", "2", "5">>), Undefined,
           EmptyString, N(15), Null, Str(<<"2">>), Str(<<"0", ".", "5">>))

Inputs ==
  YearsInputs \cup ArithInputs \cup MalformedInputs \cup LargeInputs
  \cup RoundingInputs \cup RecoveryInputs
  \cup {ScenarioA, ScenarioB, ScenarioC, CoercionInput}

\* ------------------------------------------------------------------------
\* The page: strings
\* ------------------------------------------------------------------------

DigitChar(d) == <<"0", "1", "2", "3", "4", "5", "6", "7", "8", "9">>[d + 1]

\* String(n) of a whole number n >= 0.
RECURSIVE NatToString(_)
NatToString(n) ==
  IF n < 10 THEN <<DigitChar(n)>>
  ELSE Append(NatToString(n \div 10), DigitChar(n % 10))

\* The decimals of m / unit, 0 < m < unit, without trailing zeros.
RECURSIVE FracToString(_, _)
FracToString(m, unit) ==
  IF m = 0 THEN <<>>
  ELSE <<DigitChar((m * 10) \div unit)>> \o FracToString((m * 10) % unit, unit)

\* String(x) of a number x, as Array.prototype.join converts a field.
NumberToString(x) ==
  CASE x.k = "nan" -> <<"N", "a", "N">>
    [] x.k = "inf" -> InfinityChars
    [] x.k = "ninf" -> <<"-">> \o InfinityChars
    [] OTHER ->
         (IF x.n < 0 THEN <<"-">> ELSE <<>>)
         \o NatToString(Abs(x.n) \div Scale)
         \o (IF Abs(x.n) % Scale = 0 THEN <<>>
             ELSE <<".">> \o FracToString(Abs(x.n) % Scale, Scale))

\* parts.join(sep)
RECURSIVE Join(_, _)
Join(parts, sep) ==
  IF parts = <<>> THEN <<>>
  ELSE IF Len(parts) = 1 THEN parts[1]
  ELSE parts[1] \o <<sep>> \o Join(Tail(parts), sep)

\* text.split(sep), sep one character.
RECURSIVE Split(_, _)
Split(text, sep) ==
  LET at == {i \in 1..Len(text) : text[i] = sep}
  IN IF at = {} THEN <<text>>
     ELSE LET i == CHOOSE j \in at : \A h \in at : j <= h
          IN <<SubSeq(text, 1, i - 1)>>
             \o Split(SubSeq(text, i + 1, Len(text)), sep)

\* ------------------------------------------------------------------------
\* The page: downloadCSV
\* ------------------------------------------------------------------------

\* const header = [...]
CsvHeader ==
  <<<<"Y", "e", "a", "r">>,
    <<"M", "o", "n", "t", "h", "l", "y", " ", "I", "n", "c", "o", "m", "e">>,
    <<"M", "o", "n", "t", "h", "l", "y", " ", "E", "x", "p", "e", "n", "s",
      "e", "s">>,
    <<"D", "e", "l", "t", "a", " ", "(", "m", "o", "n", "t", "h", "l", "y",
      ")">>,
    <<"C", "o", "n", "t", "r", "i", "b", "u", "t", "i", "o", "n", " ", "(",
      "a", "n", "n", "u", "a", "l", ")">>,
    <<"C", "a", "p", "i", "t", "a", "l", " ", "l", "a", "s", "t", " ", "y",
      "e", "a", "r">>,
    <<"%", " ", "o", "n", " ", "l", "a", "s", "t", " ", "y", "e", "a", "r",
      " ", "c", "a", "p", "i", "t", "a", "l">>,
    <<"%", " ", "o", "n", " ", "c", "u", "r", "r", "e", "n", "t", "-", "y",
      "e", "a", "r", " ", "c", "o", "n", "t", "r", "i", "b", "u", "t", "i",
      "o", "n", "s">>,
    <<"F", "i", "n", "a", "l", " ", "c", "a", "p", "i", "t", "a", "l">>>>

\* [r.year, r.incomeMonthly, ..., r.capitalEnd].join(",")
CsvLine(r) ==
  Join(<<NatToString(r.year), NumberToString(r.incomeMonthly),
         NumberToString(r.expensesMonthly), NumberToString(r.deltaMonthly),
         NumberToString(r.contribution), NumberToString(r.capitalStart),
         NumberToString(r.interestOnStart),
         NumberToString(r.interestOnContribution),
         NumberToString(r.capitalEnd)>>, ",")

\* Mutant of CsvText: every line ends with a newline, the last one too.
CsvText_trailingNewline(rows) ==
  Join(<<Join(CsvHeader, ",")>> \o [i \in 1..Len(rows) |-> CsvLine(rows[i])],
       "\n") \o <<"\n">>

\* lines.join("\n"), lines the header line followed by one line per row.
CsvText(rows) ==
  Join(<<Join(CsvHeader, ",")>> \o [i \in 1..Len(rows) |-> CsvLine(rows[i])],
       "\n")

\* ------------------------------------------------------------------------
\* The page: charts and in-page tests
\* ------------------------------------------------------------------------

\* params as setup() and resetToDefaults() set it.
DefaultParams ==
  MkParams(N(0), N(5589), N(4000), N(10), N(15), N(5), N(30), N(1))

\* The values of the metric selector (metricOptions) of each page.
MetricOptions(page) ==
  {"capitalEnd", "contribution", "interestTotal", "interestOnStart",
   "interestOnContribution"}
  \cup (IF page = "script.js"
        THEN {"incomeMonthly", "expensesMonthly", "deltaMonthly"} ELSE {})

\* The values of the options of the contribution factor selector.
FactorOptions ==
  {Str(<<"0">>), Str(<<"0", ".", "5">>), Str(<<"1">>)}

\* A test that has not run.
NoTest ==
  [state |-> "none", changed |-> FALSE, before |-> NaN, after |-> NaN,
   beforeMetric |-> "", afterMetric |-> ""]

\* The page before the script has run.
NotMounted ==
  [page |-> "none",
   params |-> EmptyParams,
   metric |-> "",
   performanceMetric |-> "",
   googleReady |-> FALSE,
   chartDraws |-> 0,
   completedCalls |-> 0,
   consoleErrors |-> 0,
   uncaught |-> 0,
   dataDraws |-> Null,
   drawnRows |-> <<>>,
   drawnMetric |-> "",
   ratios |-> <<>>,
   performance |-> <<>>,
   job |-> FALSE,
   resizeTimers |-> 0,
   tpc |-> "notStarted",
   drawsOnLoad |-> NaN,
   metricTest |-> NoTest,
   factorTest |-> NoTest,
   tests |-> <<>>,
   results |-> <<>>,
   csv |-> Null,
   csvRows |-> <<>>,
   events |-> 0]

\* The page once createApp(...).mount("#app") has run setup().
Mounted(page) ==
  [NotMounted EXCEPT !.page = page, !.params = DefaultParams,
                     !.metric = "capitalEnd",
                     !.performanceMetric =
                        IF page = "script.js" THEN "returns" ELSE ""]

\* rows.value: the computed rows of the current params.
Rows(a) == buildRows(a.params)

\* Math.round(x * 100) / 100
Round100(x) == Div(MathRound(Mul(x, Int2Num(100))), Int2Num(100))

\* ((a - b) / b) * 100
PctChange(a, b) == Mul(Div(Sub(a, b), b), Int2Num(100))

\* prepareRatiosData(rows): the rows of the dataset under its header, each
\* the year and the savings rate, the capital growth rate and the expense
\* ratio, a rate being 0 when its denominator is not positive.
prepareRatiosData(rows) ==
  [i \in 1..Len(rows) |->
     LET row == rows[i]
         savingsRate ==
           IF Lt(Fin(0), row.incomeMonthly)
           THEN Mul(Div(row.deltaMonthly, row.incomeMonthly), Int2Num(100))
           ELSE Fin(0)
         growthRate ==
           IF Lt(Fin(0), row.capitalStart)
           THEN PctChange(row.capitalEnd, row.capitalStart)
           ELSE Fin(0)
         expenseRatio ==
           IF Lt(Fin(0), row.incomeMonthly)
           THEN Mul(Div(row.expensesMonthly, row.incomeMonthly), Int2Num(100))
           ELSE Fin(0)
     IN [year |-> row.year,
         cells |-> <<Round100(savingsRate), Round100(growthRate),
                     Round100(expenseRatio)>>]]

\* The values of the performance metric selector.
PerformanceMetrics == {"returns", "growth", "efficiency"}

\* x || 1
OrOne(x) == IF x.k = "nan" \/ x = Fin(0) THEN Int2Num(1) ELSE x

\* preparePerformanceData(rows) under performanceMetric.value = m: the rows
\* of the dataset under its header.
preparePerformanceData(rows, m) ==
  [i \in 1..Len(rows) |->
     LET row == rows[i]
     IN CASE m = "returns" ->
               [year |-> row.year,
                cells |-> <<Add(row.interestOnStart, row.interestOnContribution),
                            row.interestOnStart,
                            row.interestOnContribution>>]
          [] m = "growth" ->
               IF i = 1
               THEN [year |-> row.year, cells |-> <<Fin(0), Fin(0), Fin(0)>>]
               ELSE LET prevRow == rows[i - 1]
                    IN [year |-> row.year,
                        cells |->
                          <<Round100(PctChange(row.capitalEnd, prevRow.capitalEnd)),
                            Round100(PctChange(row.incomeMonthly,
                                               prevRow.incomeMonthly)),
                            Round100(PctChange(row.expensesMonthly,
                                               prevRow.expensesMonthly))>>]
          [] m = "efficiency" ->
               LET efficiency ==
                     IF Lt(Fin(0), row.contribution)
                     THEN Div(row.capitalEnd,
                              OrOne(Add(row.contribution, row.capitalStart)))
                     ELSE Fin(0)
                   roi ==
                     IF Lt(Fin(0), row.capitalStart)
                     THEN PctChange(row.capitalEnd, row.capitalStart)
                     ELSE Fin(0)
                   payback ==
                     IF Lt(Fin(0), row.deltaMonthly)
                     THEN Div(row.capitalStart,
                              Mul(row.deltaMonthly, Int2Num(12)))
                     ELSE Fin(0)
               IN [year |-> row.year,
                   cells |-> <<Round100(efficiency), Round100(roi),
                               Round100(payback)>>]]

\* The try block of drawAllCharts() when every chart draw completes: the
\* charts are drawn from rows and the metric (script.js: and from the ratios
\* and performance datasets of chartData), chartDraws is incremented and
\* published as the data-draws attribute of the container.  (drawChart of
\* part_000 has the same effect on the counter.)
ChartsDrawn(a, rows) ==
  [a EXCEPT
     !.drawnRows = rows,
     !.drawnMetric = a.metric,
     !.ratios = IF a.page = "script.js" THEN prepareRatiosData(rows) ELSE <<>>,
     !.performance =
        IF a.page = "script.js"
        THEN preparePerformanceData(rows, a.performanceMetric)
        ELSE <<>>,
     !.chartDraws = a.chartDraws + 1,
     !.completedCalls = a.completedCalls + 1,
     !.dataDraws = Str(NatToString(a.chartDraws + 1))]

\* drawAllCharts() when every chart draw completes: nothing before the
\* charting library is ready; then the draws from the current rows.
drawAllCharts(a) ==
  IF ~a.googleReady THEN a ELSE ChartsDrawn(a, Rows(a))

\* The draw functions drawAllCharts calls, in the order of the calls
\* (drawChart of part_000 draws one chart).
DrawSteps(page) ==
  IF page = "script.js"
  THEN <<"main", "breakdown", "cashflow", "performance">>
  ELSE <<"main">>

\* The position of a draw function in DrawSteps.
StepIndex(page, step) ==
  CHOOSE i \in 1..Len(DrawSteps(page)) : DrawSteps(page)[i] = step

\* Mutant of drawAllChartsThrows: the counter is incremented and published
\* before the draws.
drawAllChartsThrows_countsFirst(a, failing) ==
  IF ~a.googleReady THEN a
  ELSE [a EXCEPT !.chartDraws = a.chartDraws + 1,
                 !.dataDraws = Str(NatToString(a.chartDraws + 1)),
                 !.consoleErrors = a.consoleErrors + 1]

\* The try block of drawAllCharts() when the draw function at position
\* `at` throws: the charts of the functions before it have been drawn, the
\* increment of chartDraws and the data-draws attribute are skipped, and the
\* catch clause logs the error and returns.
ChartsDrawnBefore(a, rows, at) ==
  [a EXCEPT
     !.drawnRows = IF at > 1 THEN rows ELSE a.drawnRows,
     !.drawnMetric = IF at > 1 THEN a.metric ELSE a.drawnMetric,
     !.ratios = IF at > 3 THEN prepareRatiosData(rows) ELSE a.ratios,
     !.consoleErrors = a.consoleErrors + 1]

\* drawAllCharts() when the draw function `failing` throws.
drawAllChartsThrows(a, failing) ==
  IF ~a.googleReady THEN a
  ELSE ChartsDrawnBefore(a, Rows(a), StepIndex(a.page, failing))

\* Number(el.getAttribute("data-draws") || "0")
ReadDraws(a) ==
  ToNumber(IF a.dataDraws = Null \/ a.dataDraws = EmptyString
           THEN Str(<<"0">>) ELSE a.dataDraws)

\* The metric selector changes to m: v-model writes metric, and the
\* watcher's job is queued when the value differs.
SelectMetric(a, m) ==
  IF a.metric = m THEN a ELSE [a EXCEPT !.metric = m, !.job = TRUE]

\* The factor selector changes to v: v-model writes
\* params.contributionInterestFactor, which invalidates rows and queues the
\* watcher's job when the value differs.
SelectFactor(a, v) ==
  IF Get(a.params, "contributionInterestFactor") = v THEN a
  ELSE [a EXCEPT !.params = WithField(a.params, "contributionInterestFactor", v),
                 !.job = TRUE]

\* The watcher's callback, run by the scheduler.
WatcherJob(a) == [drawAllCharts(a) EXCEPT !.job = FALSE]

\* "Metric selector exists and triggers redraw", up to its wait: the draw
\* count is read, the selector is set to "contribution" and its events are
\* dispatched.
MetricTestStart(a) ==
  [SelectMetric(a, "contribution") EXCEPT
     !.metricTest = [NoTest EXCEPT !.state = "waiting",
                                   !.changed = (a.metric # "contribution"),
                                   !.before = ReadDraws(a)]]

\* The same test from its second read of the draw count.
MetricTestEnd(a) ==
  [a EXCEPT !.metricTest.state = "done", !.metricTest.after = ReadDraws(a)]

\* "Changing contribution assumption does not change metric", up to its
\* wait: the metric and the draw count are read, the factor selector is set
\* to "0.5" and its change event is dispatched.
FactorTestStart(a) ==
  [SelectFactor(a, Str(<<"0", ".", "5">>)) EXCEPT
     !.factorTest =
        [NoTest EXCEPT
           !.state = "waiting",
           !.changed = (Get(a.params, "contributionInterestFactor")
                          # Str(<<"0", ".", "5">>)),
           !.before = ReadDraws(a),
           !.beforeMetric = a.metric]]

\* The same test from its second read of the metric.
FactorTestEnd(a) ==
  [a EXCEPT !.factorTest.state = "done",
            !.factorTest.afterMetric = a.metric,
            !.factorTest.after = ReadDraws(a)]

\* The names of the tests runTests registers, in the order of its
\* tests.push calls (the same in both pages; the multiplication sign of
\* two names is written x).
TestNames ==
  <<"Year 1 basic math (defaults)",
    "Negative delta withdraws from capital (floored at 0)",
    "Year 2 growth/inflation application",
    "CSV newline separator correctness",
    "buildRows length matches years",
    "0x factor yields zero interest on contribution",
    "Vue mounts and renders interpolation",
    "Google Charts container exists",
    "Google chart draws at least once on load",
    "Metric selector exists and triggers redraw",
    "Default contribution factor is 1x when undefined",
    "Rows contain only finite numbers",
    "Coerces NaN/blank inputs to finite numbers",
    "Help sections present and quick start is foldable",
    "Changing contribution assumption does not change metric">>

\* The positions of the three tests that read the draw count.
DrawsOnLoadIndex == 9
MetricTestIndex == 10
FactorTestIndex == 15

\* The message of a result: its text and the values interpolated into it.
NoMessage == [text |-> "", args |-> <<>>]

\* How a test body ends: it returns, it throws an Error, or (an async
\* body) it returns a promise.
Returns == [kind |-> "returns", message |-> NoMessage]
Throws(text, args) ==
  [kind |-> "throws", message |-> [text |-> text, args |-> args]]
ReturnsPromise == [kind |-> "promise", message |-> NoMessage]

\* What stands for an exception leaving assert instead of a value.
Thrown ==
  [name |-> "", state |-> "thrown", pass |-> FALSE, message |-> NoMessage]

\* Mutant of assert: there is no try/catch around fn().
assert_noCatch(page, name, outcome) ==
  CASE outcome.kind = "throws" -> Thrown
    [] outcome.kind = "promise" /\ page = "script.js" ->
         [name |-> name, state |-> "pending", pass |-> FALSE,
          message |-> NoMessage]
    [] OTHER ->
         [name |-> name, state |-> "result", pass |-> TRUE,
          message |-> NoMessage]

\* assert(name, fn) for a body fn that ends in `outcome`: a result, or in
\* script.js the promise of one when fn returned a thenable; part_000's
\* assert takes every returned value for a pass.
assert(page, name, outcome) ==
  CASE outcome.kind = "throws" ->
         [name |-> name, state |-> "result", pass |-> FALSE,
          message |-> outcome.message]
    [] outcome.kind = "promise" /\ page = "script.js" ->
         [name |-> name, state |-> "pending", pass |-> FALSE,
          message |-> NoMessage]
    [] OTHER ->
         [name |-> name, state |-> "result", pass |-> TRUE,
          message |-> NoMessage]

\* The handlers of result.then(...) in assert: the promise of an async
\* body settles, fulfilled ("returns") or rejected ("throws").
PromiseSettles(entry, outcome) ==
  IF outcome.kind = "throws"
  THEN [entry EXCEPT !.state = "result", !.pass = FALSE,
                     !.message = outcome.message]
  ELSE [entry EXCEPT !.state = "result", !.pass = TRUE,
                     !.message = NoMessage]

\* tests.push(r) for the value r of assert(...); an exception leaving
\* assert would leave runTests as well.
Push(a, r) ==
  IF r.state = "thrown"
  THEN [a EXCEPT !.uncaught = a.uncaught + 1, !.tpc = "aborted"]
  ELSE [a EXCEPT !.tests = Append(a.tests, r)]

\* The tests from..to are registered: tests of buildRows and of the page's
\* markup, which change nothing on the page; their bodies return on the
\* page the tests are written for.
RegisterStatic(a, from, to) ==
  [a EXCEPT !.tests =
     a.tests \o [i \in 1..(to - from + 1) |->
                   assert(a.page, TestNames[from + i - 1], Returns)]]

\* The end of the body of "Google chart draws at least once on load".
DrawsOnLoadOutcome(a) ==
  IF Lt(Fin(0), a.drawsOnLoad) THEN Returns
  ELSE Throws("draw count did not increment", <<>>)

\* The end of the body of "Metric selector exists and triggers redraw".
MetricTestOutcome(a) ==
  IF Lt(a.metricTest.before, a.metricTest.after) THEN Returns
  ELSE IF a.page = "script.js"
  THEN Throws("draw count did not increase: ${before} -> ${after}",
              <<a.metricTest.before, a.metricTest.after>>)
  ELSE Throws("draw count did not increase after metric change", <<>>)

\* The end of the body of "Changing contribution assumption does not
\* change metric".
FactorTestOutcome(a) ==
  IF a.factorTest.afterMetric # a.factorTest.beforeMetric
  THEN Throws("Metric changed when contribution factor changed", <<>>)
  ELSE IF Lt(a.factorTest.before, a.factorTest.after) THEN Returns
  ELSE IF a.page = "script.js"
  THEN Throws("Chart did not redraw after contribution factor change: ${prev} -> ${afterDraws}",
              <<a.factorTest.before, a.factorTest.after>>)
  ELSE Throws("Chart did not redraw after contribution factor change", <<>>)

\* runTests goes on to `next` unless an exception has left it.
GoesOn(a, next) == IF a.tpc = "aborted" THEN a ELSE [a EXCEPT !.tpc = next]

\* ------------------------------------------------------------------------
\* State
\* ------------------------------------------------------------------------

VARIABLES
  p,        \* the argument of the current call of buildRows
  pc,       \* "idle" outside a call, "loop" inside one, "done" on return
  frame,    \* the locals of the running call
  result,   \* the rows the call returned, until its caller is done with them
  memP,     \* a caller's record of an earlier call: its argument,
  memRows,  \*   and the rows it returned
  memSet,   \* whether the caller holds such a record
  others,   \* whether a call with another argument was made since
  app       \* the page: the state of the application and of its tests

vars == <<p, pc, frame, result, memP, memRows, memSet, others, app>>

\* The locals outside a call.
NoFrame ==
  [rows |-> <<>>, capitalStart |-> Fin(0), incomeMonthly |-> Fin(0),
   expensesMonthly |-> Fin(0), gIncome |-> Fin(0), r |-> Fin(0),
   infl |-> Fin(0), years |-> Fin(0), k |-> Fin(0), y |-> 0]

Init ==
  /\ p = EmptyParams
  /\ pc = "idle"
  /\ frame = NoFrame
  /\ result = <<>>
  /\ memP = EmptyParams
  /\ memRows = <<>>
  /\ memSet = FALSE
  /\ others = FALSE
  /\ app = NotMounted

\* buildRows(q) is called: lines 629-647, up to the first loop test.
buildRowsCall(q) ==
  /\ pc = "idle"
  /\ p' = q
  /\ frame' = buildRowsEntry(q)
  /\ pc' = "loop"
  /\ result' = <<>>
  /\ others' = (others \/ (memSet /\ q # memP))
  /\ UNCHANGED <<memP, memRows, memSet, app>>

\* Mutant of buildRowsIterate: the grown income is written to the
\* argument record (p.incomeMonthly) as well.
buildRowsIterate_writesArgument ==
  /\ pc = "loop"
  /\ LoopCond(frame)
  /\ frame' = LoopBody(frame)
  /\ p' = [g \in DOMAIN p \cup {"incomeMonthly"} |->
             IF g = "incomeMonthly" THEN NumV(frame'.incomeMonthly) ELSE p[g]]
  /\ UNCHANGED <<pc, result, memP, memRows, memSet, others, app>>

\* One iteration of the for loop.
buildRowsIterate ==
  /\ pc = "loop"
  /\ LoopCond(frame)
  /\ frame' = LoopBody(frame)
  /\ UNCHANGED <<p, pc, result, memP, memRows, memSet, others, app>>

\* The loop test fails: return rows.
buildRowsReturn ==
  /\ pc = "loop"
  /\ ~LoopCond(frame)
  /\ result' = frame.rows
  /\ frame' = NoFrame
  /\ pc' = "done"
  /\ UNCHANGED <<p, memP, memRows, memSet, others, app>>

\* The caller keeps the argument and the rows of the call that returned.
Remember ==
  /\ pc = "done"
  /\ memP' = p
  /\ memRows' = result
  /\ memSet' = TRUE
  /\ others' = FALSE
  /\ UNCHANGED <<p, pc, frame, result, app>>

\* The caller is done with the rows of the call (the r of a test body goes
\* out of scope).
CallerDone ==
  /\ pc = "done"
  /\ pc' = "idle"
  /\ p' = EmptyParams
  /\ result' = <<>>
  /\ UNCHANGED <<frame, memP, memRows, memSet, others, app>>

Next ==
  \/ \E q \in Inputs : buildRowsCall(q)
  \/ buildRowsIterate
  \/ buildRowsReturn
  \/ CallerDone

Spec == Init /\ [][Next]_vars

\* Calls in sequence, the caller remembering one earlier call.
CallInputs ==
  {MkParams(sc, N(100), N(40), N(10), N(15), N(5), ys, cf) :
     sc \in {N(0), N(500)}, ys \in {Absent, N(2), N(3)},
     cf \in {Absent, Milli(500)}}

NextCalls ==
  \/ \E q \in CallInputs : buildRowsCall(q)
  \/ buildRowsIterate
  \/ buildRowsReturn
  \/ Remember
  \/ CallerDone

SpecCalls == Init /\ [][NextCalls]_vars

\* ------------------------------------------------------------------------
\* The page: events
\* ------------------------------------------------------------------------

\* Largest number of user events (selections, resets, resizes) on the page.
MaxEvents == 2

\* The locals and callers of buildRows, which the page's events leave alone.
engine == <<p, pc, frame, result, memP, memRows, memSet, others>>

\* No task is running and no job of the scheduler is queued: the next
\* task of the event loop may run.
Idle(a) ==
  /\ a.page # "none"
  /\ ~a.job
  /\ a.tpc \in {"notStarted", "await300", "await500", "settled"}

\* The script of the page runs: setup() and mount("#app").
Mount(page) ==
  /\ app.page = "none"
  /\ app' = Mounted(page)
  /\ UNCHANGED engine

\* Mutant of OnLoadCallback: the tests are started without the first draw.
OnLoadCallback_testsBeforeDraw ==
  /\ Idle(app)
  /\ app.tpc = "notStarted"
  /\ app' = [app EXCEPT !.googleReady = TRUE, !.tpc = "runTests"]
  /\ UNCHANGED engine

\* The callback of google.charts.setOnLoadCallback, up to the call of
\* runTests: googleReady.value = true; drawAllCharts().
OnLoadCallback ==
  /\ Idle(app)
  /\ app.tpc = "notStarted"
  /\ app' = [drawAllCharts([app EXCEPT !.googleReady = TRUE])
               EXCEPT !.tpc = "runTests"]
  /\ UNCHANGED engine

\* runTests, from its start through "Google chart draws at least once on
\* load".
TestDrawsOnLoad ==
  /\ app.tpc = "runTests"
  /\ LET a1 == [RegisterStatic(app, 1, DrawsOnLoadIndex - 1)
                  EXCEPT !.drawsOnLoad = ReadDraws(app)]
     IN app' = GoesOn(Push(a1, assert(app.page, TestNames[DrawsOnLoadIndex],
                                      DrawsOnLoadOutcome(a1))),
                      "metricTest")
  /\ UNCHANGED engine

\* runTests: "Metric selector exists and triggers redraw"; script.js waits
\* 300 ms before the second read, part_000 reads at once.
TestMetric ==
  /\ app.tpc = "metricTest"
  /\ LET a1 == IF app.page = "script.js" THEN MetricTestStart(app)
               ELSE MetricTestEnd(MetricTestStart(app))
         body == IF app.page = "script.js" THEN ReturnsPromise
                 ELSE MetricTestOutcome(a1)
     IN app' = GoesOn(Push(a1, assert(app.page, TestNames[MetricTestIndex],
                                      body)),
                      "factorTest")
  /\ UNCHANGED engine

\* runTests: "Changing contribution assumption does not change metric";
\* script.js waits 500 ms before the second reads, part_000 reads at once.
\* The tests registered in between come first; then runTests returns its
\* tests (script.js: awaits Promise.all(tests)).
TestFactor ==
  /\ app.tpc = "factorTest"
  /\ LET a0 == RegisterStatic(app, MetricTestIndex + 1, FactorTestIndex - 1)
         a1 == IF app.page = "script.js" THEN FactorTestStart(a0)
               ELSE FactorTestEnd(FactorTestStart(a0))
         body == IF app.page = "script.js" THEN ReturnsPromise
                 ELSE FactorTestOutcome(a1)
         a2 == Push(a1, assert(app.page, TestNames[FactorTestIndex], body))
     IN app' = IF app.page = "script.js" THEN GoesOn(a2, "await300")
               ELSE GoesOn([a2 EXCEPT !.results = a2.tests], "settled")
  /\ UNCHANGED engine

\* The scheduler runs the queued job of the watcher, once the running task
\* has returned and before any other task.
FlushJobs ==
  /\ app.job
  /\ app.tpc \in {"notStarted", "await300", "await500", "settled"}
  /\ app' = WatcherJob(app)
  /\ UNCHANGED engine

\* The 300 ms timer of the metric test fires.
MetricTestResumes ==
  /\ Idle(app)
  /\ app.tpc = "await300"
  /\ LET a1 == MetricTestEnd(app)
     IN app' = [a1 EXCEPT
                  !.tests[MetricTestIndex] =
                     PromiseSettles(a1.tests[MetricTestIndex],
                                    MetricTestOutcome(a1)),
                  !.tpc = "await500"]
  /\ UNCHANGED engine

\* The 500 ms timer of the factor test fires, and Promise.all settles.
FactorTestResumes ==
  /\ Idle(app)
  /\ app.tpc = "await500"
  /\ LET a1 == FactorTestEnd(app)
         a2 == [a1 EXCEPT
                  !.tests[FactorTestIndex] =
                     PromiseSettles(a1.tests[FactorTestIndex],
                                    FactorTestOutcome(a1))]
     IN app' = [a2 EXCEPT !.results = a2.tests, !.tpc = "settled"]
  /\ UNCHANGED engine

\* The user selects another metric.
UserSelectsMetric(m) ==
  /\ Idle(app)
  /\ app.events < MaxEvents
  /\ m \in MetricOptions(app.page)
  /\ m # app.metric
  /\ app' = [SelectMetric(app, m) EXCEPT !.events = app.events + 1]
  /\ UNCHANGED engine

\* The user selects another contribution factor.
UserSelectsFactor(v) ==
  /\ Idle(app)
  /\ app.events < MaxEvents
  /\ v # Get(app.params, "contributionInterestFactor")
  /\ app' = [SelectFactor(app, v) EXCEPT !.events = app.events + 1]
  /\ UNCHANGED engine

\* resetToDefaults(): params.value is a new object, so the watcher's job
\* is queued whatever the values were.
resetToDefaults ==
  /\ Idle(app)
  /\ app.events < MaxEvents
  /\ app' = [app EXCEPT !.params = DefaultParams, !.job = TRUE,
                        !.events = app.events + 1]
  /\ UNCHANGED engine

\* The window is resized: script.js sets a timer of 100 ms for
\* drawAllCharts, part_000 draws at once.
Resize ==
  /\ Idle(app)
  /\ app.events < MaxEvents
  /\ app' = IF app.page = "script.js"
            THEN [app EXCEPT !.resizeTimers = app.resizeTimers + 1,
                             !.events = app.events + 1]
            ELSE [drawAllCharts(app) EXCEPT !.events = app.events + 1]
  /\ UNCHANGED engine

\* A timer set by a resize fires: drawAllCharts().
ResizeTimerFires ==
  /\ Idle(app)
  /\ app.resizeTimers > 0
  /\ app' = [drawAllCharts(app) EXCEPT !.resizeTimers = app.resizeTimers - 1]
  /\ UNCHANGED engine

Pages == {"script.js", "part_000"}

NextPage ==
  \/ \E page \in Pages : Mount(page)
  \/ OnLoadCallback
  \/ TestDrawsOnLoad
  \/ TestMetric
  \/ TestFactor
  \/ FlushJobs
  \/ MetricTestResumes
  \/ FactorTestResumes
  \/ \E m \in MetricOptions("script.js") : UserSelectsMetric(m)
  \/ \E v \in FactorOptions : UserSelectsFactor(v)
  \/ resetToDefaults
  \/ Resize
  \/ ResizeTimerFires

SpecPage == Init /\ [][NextPage]_vars

\* The parameter records the form is filled with before a download.
CsvInputs ==
  RecoveryInputs
  \cup {ScenarioA, ScenarioB, ScenarioC, ScenarioD, DefaultParams,
        MkParams(Milli(100004), Milli(1005), Milli(2), N(0), N(50), N(0),
                 N(3), Absent),
        MkParams(N(2000000), N(0), N(2000000), N(0), N(-100), N(0), N(2),
                 Absent)}

\* The user fills the form: v-model writes the fields of params.
UserEditsParams(q) ==
  /\ Idle(app)
  /\ app.events < MaxEvents
  /\ q # app.params
  /\ app' = [app EXCEPT !.params = q, !.job = TRUE,
                        !.events = app.events + 1]
  /\ UNCHANGED engine

\* downloadCSV(): rows.value as the handler reads it, and the text of the
\* file offered for download.
downloadCSV ==
  /\ Idle(app)
  /\ app' = [app EXCEPT !.csvRows = Rows(app),
                        !.csv = Str(CsvText(Rows(app)))]
  /\ UNCHANGED engine

NextCsv ==
  \/ \E page \in Pages : Mount(page)
  \/ \E q \in CsvInputs : UserEditsParams(q)
  \/ FlushJobs
  \/ downloadCSV

SpecCsv == Init /\ [][NextCsv]_vars

\* The parameter records the form is filled with before the charts are
\* looked at: small amounts, whose rows are finite; among them a capital
\* that falls to 0 and a record without expenses.
ChartInputs ==
  RecoveryInputs
  \cup {ScenarioA, ScenarioB,
        MkParams(N(500), N(100), N(40), N(10), N(15), N(5), N(3), Milli(500)),
        MkParams(N(0), N(100), N(0), N(0), N(10), N(0), N(2), N(1))}

\* The user selects another performance metric (script.js only).
UserSelectsPerformance(m) ==
  /\ Idle(app)
  /\ app.page = "script.js"
  /\ app.events < MaxEvents
  /\ m # app.performanceMetric
  /\ app' = [app EXCEPT !.performanceMetric = m, !.job = TRUE,
                        !.events = app.events + 1]
  /\ UNCHANGED engine

\* The page from its load on, the user filling the form and choosing the
\* performance metric.
NextCharts ==
  \/ \E page \in Pages : Mount(page)
  \/ OnLoadCallback
  \/ TestDrawsOnLoad
  \/ TestMetric
  \/ TestFactor
  \/ FlushJobs
  \/ MetricTestResumes
  \/ FactorTestResumes
  \/ \E q \in ChartInputs : UserEditsParams(q)
  \/ \E m \in PerformanceMetrics : UserSelectsPerformance(m)

SpecCharts == Init /\ [][NextCharts]_vars

\* The load callback when a draw function of its drawAllCharts() throws:
\* runTests is called all the same.
OnLoadCallbackDrawThrows(failing) ==
  /\ Idle(app)
  /\ app.tpc = "notStarted"
  /\ app' = [drawAllChartsThrows([app EXCEPT !.googleReady = TRUE], failing)
               EXCEPT !.tpc = "runTests"]
  /\ UNCHANGED engine

\* The watcher's job when a draw function throws.
FlushJobsDrawThrows(failing) ==
  /\ app.job
  /\ app.googleReady
  /\ app.tpc \in {"notStarted", "await300", "await500", "settled"}
  /\ app' = [drawAllChartsThrows(app, failing) EXCEPT !.job = FALSE]
  /\ UNCHANGED engine

\* A resize of part_000's window when its draw throws.
ResizeDrawThrows(failing) ==
  /\ Idle(app)
  /\ app.page = "part_000"
  /\ app.googleReady
  /\ app.events < MaxEvents
  /\ app' = [drawAllChartsThrows(app, failing) EXCEPT !.events = app.events + 1]
  /\ UNCHANGED engine

\* A timer set by a resize fires, and a draw function throws.
ResizeTimerDrawThrows(failing) ==
  /\ Idle(app)
  /\ app.googleReady
  /\ app.resizeTimers > 0
  /\ app' = [drawAllChartsThrows(app, failing)
               EXCEPT !.resizeTimers = app.resizeTimers - 1]
  /\ UNCHANGED engine

\* Some draw function of the page.
Failing(page) == {DrawSteps(page)[i] : i \in 1..Len(DrawSteps(page))}

\* The page with a charting library whose draws may throw: every call of
\* drawAllCharts either completes or has one of its draw functions throw.
NextDraws ==
  \/ \E page \in Pages : Mount(page)
  \/ OnLoadCallback
  \/ \E f \in Failing(app.page) : OnLoadCallbackDrawThrows(f)
  \/ TestDrawsOnLoad
  \/ TestMetric
  \/ TestFactor
  \/ FlushJobs
  \/ \E f \in Failing(app.page) : FlushJobsDrawThrows(f)
  \/ MetricTestResumes
  \/ FactorTestResumes
  \/ resetToDefaults
  \/ Resize
  \/ \E f \in Failing(app.page) : ResizeDrawThrows(f)
  \/ ResizeTimerFires
  \/ \E f \in Failing(app.page) : ResizeTimerDrawThrows(f)

SpecDraws == Init /\ [][NextDraws]_vars

\* ------------------------------------------------------------------------
\* Properties
\* ------------------------------------------------------------------------

\* The numeric fields of a row.
NumericFields ==
  {"incomeMonthly", "expensesMonthly", "deltaMonthly", "contribution",
   "capitalStart", "interestOnStart", "interestOnContribution", "capitalEnd"}

RowIsFinite(row) == \A f \in NumericFields : IsFinite(row[f])

\* clamp(floor(n), 1, 60) of a finite number of n units, as an integer.
ClampedYears(n) ==
  LET fl == n \div Scale
  IN IF fl < 1 THEN 1 ELSE IF fl > 60 THEN 60 ELSE fl

\* C1: when years converts to a finite number n, the call returns exactly
\* clamp(floor(n), 1, 60) rows and their year fields are 1, 2, ..., N.
C1_LengthIsClampedYears ==
  (pc = "done" /\ IsFinite(ToNumber(Get(p, "years"))))
    => LET len == ClampedYears(ToNumber(Get(p, "years")).n)
       IN /\ Len(result) = len
          /\ \A i \in 1..Len(result) : result[i].year = i

\* C1 witness: a call with years above 60 returned 60 rows, the last one
\* of year 60.
C1_Witness ==
  /\ pc = "done"
  /\ IsFinite(ToNumber(Get(p, "years")))
  /\ ToNumber(Get(p, "years")).n > 60 * Scale
  /\ Len(result) = 60
  /\ result[60].year = 60

\* C2: in the returned rows, the capitalStart of every row after the first
\* is the capitalEnd of the row before it.
C2_Chaining ==
  pc = "done"
    => \A i \in 2..Len(result) :
         result[i].capitalStart = result[i - 1].capitalEnd

\* C2 witness: three rows returned, the first floored at 0 from a positive
\* start, the last one starting from a positive capital.
C2_Witness ==
  /\ pc = "done"
  /\ Len(result) = 3
  /\ Lt(Fin(0), result[1].capitalStart)
  /\ Lt(result[1].contribution, Fin(0))
  /\ result[1].capitalEnd = Fin(0)
  /\ result[2].capitalStart = Fin(0)
  /\ IsFinite(result[3].capitalStart)

\* C3: no returned row has a negative capitalEnd, and no row after the
\* first has a negative capitalStart.
C3_NoNegativeCapital ==
  pc = "done"
    => \A i \in 1..Len(result) :
         /\ ~Lt(result[i].capitalEnd, Fin(0))
         /\ (i > 1 => ~Lt(result[i].capitalStart, Fin(0)))

\* C3 witness: scenario B returned, its withdrawal larger than the capital
\* and the row's capitalEnd 0.
C3_Witness ==
  /\ pc = "done"
  /\ p = ScenarioB
  /\ Lt(Add(result[1].capitalStart, result[1].contribution), Fin(0))
  /\ result[1].capitalEnd = Fin(0)

\* C4: every numeric field of every returned row is finite, whatever the
\* input record holds.
C4_AllFieldsFinite ==
  pc = "done" => \A i \in 1..Len(result) : RowIsFinite(result[i])

\* C5: every step of a running call is either one more iteration, which
\* moves y up by one and is at most the 60th, or the return; the call
\* returns at least 1 and at most 60 rows.
C5_Total ==
  [][/\ (pc = "loop" /\ pc' = "loop")
          => /\ frame'.y = frame.y + 1
             /\ Len(frame'.rows) = Len(frame.rows) + 1
             /\ Len(frame'.rows) = frame.y
             /\ frame.y <= 60
     /\ (pc = "loop" /\ pc' # "loop")
          => /\ pc' = "done"
             /\ result' = frame.rows
             /\ Len(result') >= 1
             /\ Len(result') <= 60]_vars

\* C5 witness: the call on the empty record returned one row.
C5_Witness ==
  /\ pc = "done"
  /\ p = EmptyParams
  /\ Len(result) = 1

\* C6: a running call does not change its argument, and a call whose
\* argument equals that of an earlier call returns the rows that call
\* returned, whatever calls were made in between.
C6_Deterministic ==
  [][/\ pc = "loop" => p' = p
     /\ (pc' = "done" /\ memSet' /\ p' = memP') => result' = memRows']_vars

\* C6 witness: a call returned three rows, equal to those remembered from
\* an earlier call with the same argument, after a call with another one.
C6_Witness ==
  /\ pc = "done"
  /\ memSet
  /\ others
  /\ p = memP
  /\ Len(result) = 3
  /\ result = memRows

\* C7: with contributionInterestFactor undefined (or absent), null or the
\* empty string, the call returns the rows of the same record with factor 1.
C7_AbsentFactorIsOne ==
  (pc = "done"
   /\ Get(p, "contributionInterestFactor") \in {Undefined, Null, EmptyString})
    => result = buildRows(WithField(p, "contributionInterestFactor", N(1)))

\* C7 witness: a call without the factor returned rows that credit interest
\* on the contribution and differ from those of factor 0.
C7_Witness ==
  /\ pc = "done"
  /\ "contributionInterestFactor" \notin DOMAIN p
  /\ IsFinite(result[1].interestOnContribution)
  /\ result[1].interestOnContribution # Fin(0)
  /\ result # buildRows(WithField(p, "contributionInterestFactor", N(0)))

\* A factor that is present but does not convert to a finite number.
InvalidFactor(v) ==
  /\ v.t \in {"string", "number"}
  /\ v # EmptyString
  /\ ~IsFinite(ToNumber(v))

\* C8: with a contributionInterestFactor that is present but not finite
\* (NaN, a non-numeric string, Infinity), the call returns the rows of the
\* same record with factor 0.
C8_InvalidFactorIsZero ==
  (pc = "done" /\ InvalidFactor(Get(p, "contributionInterestFactor")))
    => result = buildRows(WithField(p, "contributionInterestFactor", N(0)))

\* C8 witness: a call with factor NaN returned rows without interest on the
\* contribution, which differ from the rows of factor 1.
C8_Witness ==
  /\ pc = "done"
  /\ Get(p, "contributionInterestFactor") = NumV(NaN)
  /\ result[1].contribution # Fin(0)
  /\ result[1].interestOnContribution = Fin(0)
  /\ result # buildRows(WithField(p, "contributionInterestFactor", N(1)))

\* A years value that is absent, null, the empty string, NaN or a
\* non-numeric string.
BlankYears(v) ==
  \/ v \in {Undefined, Null, EmptyString, NumV(NaN)}
  \/ (v.t = "string" /\ ToNumber(v) = NaN)

\* C9: when years is absent, null, the empty string, NaN or a non-numeric
\* string, the call returns exactly one row, of year 1, with every field
\* finite.
C9_BlankYearsOneFiniteRow ==
  (pc = "done" /\ BlankYears(Get(p, "years")))
    => /\ Len(result) = 1
       /\ result[1].year = 1
       /\ RowIsFinite(result[1])

\* The coerced inputs of p and the first-year figures the formulas of the
\* specification give for them.
FirstYear(q) ==
  LET startingCapital == toFinite(Get(q, "startingCapital"), Fin(0))
      incomeMonthly == toFinite(Get(q, "incomeMonthly"), Fin(0))
      expensesMonthly == toFinite(Get(q, "expensesMonthly"), Fin(0))
      rate == Div(toFinite(Get(q, "returnPct"), Fin(0)), Int2Num(100))
      factor == FactorOf(q)
      deltaMonthly == Sub(incomeMonthly, expensesMonthly)
      contribution == Mul(Int2Num(12), deltaMonthly)
      interestOnStart == Mul(startingCapital, rate)
      interestOnContribution == Mul(Mul(contribution, rate), factor)
  IN [deltaMonthly |-> deltaMonthly,
      contribution |-> contribution,
      interestOnStart |-> interestOnStart,
      interestOnContribution |-> interestOnContribution,
      capitalEnd |->
        MathMax(Fin(0),
                Add(Add(Add(startingCapital, contribution), interestOnStart),
                    interestOnContribution))]

\* C10: the first returned row holds, each rounded to 2 decimals,
\* deltaMonthly = income - expenses, contribution = 12 * deltaMonthly,
\* interestOnStart = capital * returnPct/100, interestOnContribution =
\* contribution * returnPct/100 * factor and capitalEnd = max(0, their sum
\* with the capital); scenario A gives 1589, 19068, 0, 1430.10, 20498.10.
C10_FirstRowFormulas ==
  pc = "done"
    => /\ \A f \in DOMAIN FirstYear(p) : result[1][f] = round2(FirstYear(p)[f])
       /\ p = ScenarioA
            => /\ result[1].deltaMonthly = Fin(1589000)
               /\ result[1].contribution = Fin(19068000)
               /\ result[1].interestOnStart = Fin(0)
               /\ result[1].interestOnContribution = Fin(1430100)
               /\ result[1].capitalEnd = Fin(20498100)

\* C10 witness: a call returned a first row with interest on a positive
\* start and on a positive contribution, under a fractional factor.
C10_Witness ==
  /\ pc = "done"
  /\ Get(p, "contributionInterestFactor") = Milli(500)
  /\ Lt(Fin(0), result[1].interestOnStart)
  /\ Lt(Fin(0), result[1].interestOnContribution)
  /\ Lt(result[1].interestOnContribution, result[1].contribution)
  /\ Lt(result[1].capitalStart, result[1].capitalEnd)
  /\ IsFinite(result[1].capitalEnd)

\* x * (1 + rate)^n as the repeated product x * (1 + rate) * ... * (1 + rate).
RECURSIVE Compound(_, _, _)
Compound(x, rate, n) ==
  IF n = 0 THEN x ELSE Mul(Compound(x, rate, n - 1), Add(Int2Num(1), rate))

\* C11: growth and inflation are applied only after a year's row is
\* recorded: row 1 reports the input income and expenses, and row y reports
\* income * (1 + incomeGrowthPct/100)^(y-1) and expenses *
\* (1 + inflationPct/100)^(y-1), each rounded to 2 decimals, for rates of
\* either sign; scenario C gives 6147.90 and 4200 in year 2.
C11_GrowthFromSecondYear ==
  pc = "done"
    => /\ \A i \in 1..Len(result) :
            /\ result[i].incomeMonthly =
                 round2(Compound(toFinite(Get(p, "incomeMonthly"), Fin(0)),
                                 toPct(Get(p, "incomeGrowthPct")), i - 1))
            /\ result[i].expensesMonthly =
                 round2(Compound(toFinite(Get(p, "expensesMonthly"), Fin(0)),
                                 toPct(Get(p, "inflationPct")), i - 1))
       /\ p = ScenarioC
            => /\ result[1].incomeMonthly = Fin(5589000)
               /\ result[1].expensesMonthly = Fin(4000000)
               /\ result[2].incomeMonthly = Fin(6147900)
               /\ result[2].expensesMonthly = Fin(4200000)

\* C11 witness: three rows returned under a negative income growth and a
\* positive inflation: income 100, 50, 25 and expenses 40, 42, 44.10.
C11_Witness ==
  /\ pc = "done"
  /\ Get(p, "incomeGrowthPct") = N(-50)
  /\ Len(result) = 3
  /\ result[1].incomeMonthly = Fin(100000)
  /\ result[2].incomeMonthly = Fin(50000)
  /\ result[3].incomeMonthly = Fin(25000)
  /\ result[1].expensesMonthly = Fin(40000)
  /\ result[2].expensesMonthly = Fin(42000)
  /\ result[3].expensesMonthly = Fin(44100)

\* The row pushed by the iteration that leads to the next state.
NewRow == frame'.rows[Len(frame'.rows)]

\* C12: when the factor is 0, the row of every year has
\* interestOnContribution equal to 0, whatever the return rate and the
\* contribution are, and its capitalEnd is max(0, capitalStart +
\* contribution + interestOnStart), rounded to 2 decimals.
C12_ZeroFactorNoInterest ==
  [][(pc = "loop" /\ pc' = "loop" /\ frame.k = Fin(0))
       => LET contribution ==
                Mul(Sub(frame.incomeMonthly, frame.expensesMonthly),
                    Int2Num(12))
              interestOnStart == Mul(frame.capitalStart, frame.r)
          IN /\ NewRow.interestOnContribution = Fin(0)
             /\ NewRow.capitalEnd =
                  round2(MathMax(Fin(0),
                                 Add(Add(frame.capitalStart, contribution),
                                     interestOnStart)))]_vars

\* C13 as stated: in every returned row, deltaMonthly equals the row's
\* incomeMonthly minus the row's expensesMonthly.
C13_DeltaOfEmittedFields ==
  pc = "done"
    => \A i \in 1..Len(result) :
         result[i].deltaMonthly =
           Sub(result[i].incomeMonthly, result[i].expensesMonthly)

\* C13 amended: the deltaMonthly of every row is the year's unrounded
\* income minus the year's unrounded expenses, rounded to 2 decimals, the
\* row's incomeMonthly and expensesMonthly being the same two figures
\* rounded separately.
C13_DeltaOfYearFigures ==
  [][(pc = "loop" /\ pc' = "loop")
       => /\ NewRow.deltaMonthly =
               round2(Sub(frame.incomeMonthly, frame.expensesMonthly))
          /\ NewRow.incomeMonthly = round2(frame.incomeMonthly)
          /\ NewRow.expensesMonthly = round2(frame.expensesMonthly)]_vars

\* C13 witness: a finite row returned with income 1.01, expenses 0.00 and
\* deltaMonthly 1.00 (from 1.005 and 0.002).
C13_Witness ==
  /\ pc = "done"
  /\ Get(p, "incomeMonthly") = Milli(1005)
  /\ Get(p, "expensesMonthly") = Milli(2)
  /\ result[1].incomeMonthly = Fin(1010)
  /\ result[1].expensesMonthly = Fin(0)
  /\ result[1].deltaMonthly = Fin(1000)

\* C18: the floor at 0 applies once per year and the deficit is dropped:
\* when the unfloored capital of a year is below 0, the row's capitalEnd is
\* 0 and the next year starts from 0; a year that starts from 0 reports
\* capitalStart 0 and interestOnStart 0, and its capitalEnd is max(0,
\* contribution + interestOnContribution) of that year alone, while income
\* and expenses keep growing.
C18_DeficitDropped ==
  [][(pc = "loop" /\ pc' = "loop")
       => LET contribution ==
                Mul(Sub(frame.incomeMonthly, frame.expensesMonthly),
                    Int2Num(12))
              interestOnStart == Mul(frame.capitalStart, frame.r)
              interestOnContribution == Mul(Mul(contribution, frame.r), frame.k)
              unfloored ==
                Add(Add(Add(frame.capitalStart, contribution), interestOnStart),
                    interestOnContribution)
          IN /\ Lt(unfloored, Fin(0))
                  => /\ NewRow.capitalEnd = Fin(0)
                     /\ frame'.capitalStart = Fin(0)
             /\ (frame.rows # <<>> /\ frame.capitalStart = Fin(0))
                  => /\ NewRow.capitalStart = Fin(0)
                     /\ NewRow.interestOnStart = Fin(0)
                     /\ NewRow.capitalEnd =
                          round2(MathMax(Fin(0),
                                         Add(contribution,
                                             interestOnContribution)))
             /\ frame'.incomeMonthly =
                  Mul(frame.incomeMonthly, Add(Int2Num(1), frame.gIncome))
             /\ frame'.expensesMonthly =
                  Mul(frame.expensesMonthly, Add(Int2Num(1), frame.infl))]_vars

\* C18 witness: a capital of 500 emptied by the deficit of year 1, then
\* year 2 starting from 0 with no interest on the start and ending on its
\* contribution of 600 plus the interest of 60 on it; income has doubled.
C18_Witness ==
  /\ pc = "done"
  /\ p \in RecoveryInputs
  /\ "contributionInterestFactor" \notin DOMAIN p
  /\ result[1].capitalStart = Fin(500000)
  /\ result[1].contribution = Fin(-600000)
  /\ result[1].capitalEnd = Fin(0)
  /\ result[2].capitalStart = Fin(0)
  /\ result[2].interestOnStart = Fin(0)
  /\ result[2].incomeMonthly = Fin(200000)
  /\ result[2].contribution = Fin(600000)
  /\ result[2].capitalEnd = Fin(660000)

\* capitalEnd of the year whose locals are f, had the year started from
\* the capital c: unrounded, floored at 0.
CapitalEndFrom(f, c) ==
  LET contribution == Mul(Sub(f.incomeMonthly, f.expensesMonthly), Int2Num(12))
  IN MathMax(Fin(0),
             Add(Add(Add(c, contribution), Mul(c, f.r)),
                 Mul(Mul(contribution, f.r), f.k)))

\* C19 as stated: the capital carried into year y+1 is the rounded
\* capitalEnd of year y: the interestOnStart and the capitalEnd of row y+1
\* are computed from the capitalEnd emitted in row y.
C19_CarriesRounded ==
  [][(pc = "loop" /\ pc' = "loop" /\ frame.rows # <<>>)
       => LET emitted == frame.rows[Len(frame.rows)].capitalEnd
          IN /\ NewRow.interestOnStart = round2(Mul(emitted, frame.r))
             /\ NewRow.capitalEnd = round2(CapitalEndFrom(frame, emitted))]_vars

\* C19 amended: the capital carried into year y+1 is the unrounded
\* capitalEnd of year y (floored at 0): the capitalEnd emitted in row y is
\* its rounding, and the capitalStart, the interestOnStart and the
\* capitalEnd of row y+1 are computed from the unrounded value.
C19_CarriesUnrounded ==
  [][(pc = "loop" /\ pc' = "loop")
       => /\ frame'.capitalStart = CapitalEndFrom(frame, frame.capitalStart)
          /\ NewRow.capitalEnd = round2(frame'.capitalStart)
          /\ NewRow.capitalStart = round2(frame.capitalStart)
          /\ NewRow.interestOnStart = round2(Mul(frame.capitalStart, frame.r))]_vars

\* C19 witness: from 100.004 at 50%, year 1 ends on 150.006, emitted as
\* 150.01; year 2 reports interest 75.00 on its start (75.003 on the
\* unrounded capital) where the emitted capital would give 75.01.
C19_Witness ==
  /\ pc = "done"
  /\ Len(result) >= 2
  /\ result[1].capitalStart = Fin(100000)
  /\ result[1].capitalEnd = Fin(150010)
  /\ result[2].capitalStart = Fin(150010)
  /\ result[2].interestOnStart = Fin(75000)
  /\ round2(Mul(result[1].capitalEnd, toPct(Get(p, "returnPct")))) = Fin(75010)

\* One hundredth, in units.
Cent == Scale \div 100

\* r is the finite unrounded value u rounded half up to 2 decimals: a whole
\* number of hundredths within half a hundredth of u, the higher one when u
\* is halfway between two.
IsHalfUpRounding(u, r) ==
  /\ IsFinite(r)
  /\ r.n % Cent = 0
  /\ 2 * (r.n - u.n) <= Cent
  /\ 2 * (u.n - r.n) < Cent

\* The unrounded values behind the numeric fields of the row that an
\* iteration pushes.
Unrounded(f) ==
  LET v == YearFigures(f)
  IN [incomeMonthly |-> f.incomeMonthly,
      expensesMonthly |-> f.expensesMonthly,
      deltaMonthly |-> v.deltaMonthly,
      contribution |-> v.contribution,
      capitalStart |-> f.capitalStart,
      interestOnStart |-> v.interestOnStart,
      interestOnContribution |-> v.interestOnContribution,
      capitalEnd |-> v.capitalEnd]

\* C20: every numeric field of every pushed row is its unrounded value
\* rounded half up to 2 decimals: a whole number of hundredths within 0.005
\* of the unrounded value, the higher of the two when the value is exactly
\* halfway, for negative values as well as positive ones.
C20_RoundHalfUp ==
  [][(pc = "loop" /\ pc' = "loop")
       => \A g \in NumericFields :
            IsFinite(Unrounded(frame)[g])
              => IsHalfUpRounding(Unrounded(frame)[g], NewRow[g])]_vars

\* The fields of a row as text, in the order of the columns.
RowFields(r) ==
  <<NatToString(r.year), NumberToString(r.incomeMonthly),
    NumberToString(r.expensesMonthly), NumberToString(r.deltaMonthly),
    NumberToString(r.contribution), NumberToString(r.capitalStart),
    NumberToString(r.interestOnStart),
    NumberToString(r.interestOnContribution), NumberToString(r.capitalEnd)>>

\* The values of a row, in the order of the columns.
RowValues(r) ==
  <<Int2Num(r.year), r.incomeMonthly, r.expensesMonthly, r.deltaMonthly,
    r.contribution, r.capitalStart, r.interestOnStart,
    r.interestOnContribution, r.capitalEnd>>

\* C14: the text built by downloadCSV has length(rows) + 1 lines joined by
\* single newlines, without a trailing newline: the first is the header of
\* 9 columns, and line i + 1 is the comma-joined fields of row i in the
\* order year, incomeMonthly, expensesMonthly, deltaMonthly, contribution,
\* capitalStart, interestOnStart, interestOnContribution, capitalEnd, each
\* field reading back as the number of the row.
C14_CsvLayout ==
  app.csv # Null
    => LET rows == app.csvRows
           text == app.csv.s
           lines == Split(text, "\n")
           cells == [i \in 1..Len(lines) |-> Split(lines[i], ",")]
       IN /\ Len(lines) = Len(rows) + 1
          /\ text[Len(text)] # "\n"
          /\ \A i \in 1..Len(lines) : lines[i] # <<>>
          /\ Len(cells[1]) = 9
          /\ cells[1] = CsvHeader
          /\ \A i \in 1..Len(rows) :
               /\ cells[i + 1] = RowFields(rows[i])
               /\ \A c \in 1..9 :
                    ToNumber(Str(cells[i + 1][c])) = RowValues(rows[i])[c]

\* C14 witness: a file of four lines was built for the three rows of a
\* year of deficit followed by two of surplus; the fifth field of its
\* second line is -600 and the last field of its last line 4026.
C14_Witness ==
  /\ app.csv # Null
  /\ Len(app.csvRows) = 3
  /\ app.csvRows[1].contribution = Fin(-600000)
  /\ app.csvRows[3].capitalEnd = Fin(4026000)
  /\ LET lines == Split(app.csv.s, "\n")
     IN /\ Len(lines) = 4
        /\ Split(lines[2], ",")[5] = <<"-", "6", "0", "0">>
        /\ Split(lines[4], ",")[1] = <<"3">>
        /\ Split(lines[4], ",")[9] = <<"4", "0", "2", "6">>

C16_MetricChangeRedraws ==
  (app.metricTest.state = "done" /\ app.metricTest.changed)
    => Lt(app.metricTest.before, app.metricTest.after)

\* C17: changing the contribution factor leaves the selected metric
\* unchanged, and once the charts are ready the rows are recomputed and the
\* chart is redrawn: the draw count that the test reads afterwards is
\* strictly greater than the one it read before, and the chart shows the
\* rows of the changed parameters.
C17_FactorChangeRedraws ==
  [][/\ (app.page # "none"
         /\ Get(app'.params, "contributionInterestFactor")
              # Get(app.params, "contributionInterestFactor"))
          => app'.metric = app.metric
     /\ (app.factorTest.state # "done" /\ app'.factorTest.state = "done"
         /\ app'.factorTest.changed)
          => /\ Lt(app'.factorTest.before, app'.factorTest.after)
             /\ app'.drawnRows = Rows(app')]_vars

\* The value buildRows is to use for property f of p under fallback fb: the
\* numeric conversion of the property when that is finite, fb otherwise.
Coerced(f, fb) ==
  LET n == ToNumber(Get(p, f)) IN IF n.k = "fin" THEN n ELSE fb

\* C21: toFinite(v, fallback) is Number(v) when that is finite and fallback
\* otherwise: the locals a call starts from are the conversions of the
\* properties of its argument, with fallback 0 for the amounts, the rates
\* and a factor that is present, and fallback 1 for years; the call reaches
\* its loop for every input, and every one of these locals is finite.
C21_ToFinite ==
  (pc = "loop" /\ frame.y = 1)
    => /\ frame.capitalStart = Coerced("startingCapital", Fin(0))
       /\ frame.incomeMonthly = Coerced("incomeMonthly", Fin(0))
       /\ frame.expensesMonthly = Coerced("expensesMonthly", Fin(0))
       /\ frame.gIncome = Div(Coerced("incomeGrowthPct", Fin(0)), Int2Num(100))
       /\ frame.r = Div(Coerced("returnPct", Fin(0)), Int2Num(100))
       /\ frame.infl = Div(Coerced("inflationPct", Fin(0)), Int2Num(100))
       /\ frame.years
            = Int2Num(ClampedYears(Coerced("years", Int2Num(1)).n))
       /\ Get(p, "contributionInterestFactor") \notin {Undefined, Null, EmptyString}
            => frame.k = Coerced("contributionInterestFactor", Fin(0))
       /\ \A f \in {"capitalStart", "incomeMonthly", "expensesMonthly",
                    "gIncome", "r", "infl", "years", "k"} : IsFinite(frame[f])

\* C21 witness: a call whose argument holds NaN, a numeric string,
\* undefined, the empty string, a finite number and null has reached its
\* loop, the numeric string and the number converted and the others 0.
C21_Witness ==
  /\ pc = "loop"
  /\ frame.y = 1
  /\ p = CoercionInput
  /\ frame.capitalStart = Fin(0)
  /\ frame.incomeMonthly = Fin(58125 * (Scale \div 1000))
  /\ frame.expensesMonthly = Fin(0)
  /\ frame.gIncome = Fin(0)
  /\ frame.r = Fin(150 * (Scale \div 1000))
  /\ frame.infl = Fin(0)
  /\ frame.years = Int2Num(2)
  /\ frame.k = Fin(500 * (Scale \div 1000))

\* The conditions of a projection that only saves: after coercion, a
\* starting capital, a return rate and a factor that are not negative, and
\* in every simulated year an income that is at least the expenses.
OnlySaves(q) ==
  LET e == buildRowsEntry(q)
  IN /\ Le(Fin(0), e.capitalStart)
     /\ Le(Fin(0), e.r)
     /\ Le(Fin(0), e.k)
     /\ \A i \in 1..(e.years.n \div Scale) :
          Le(Compound(e.expensesMonthly, e.infl, i - 1),
             Compound(e.incomeMonthly, e.gIncome, i - 1))

\* capitalStart + contribution + interestOnStart + interestOnContribution
\* of the year, before the floor.
UnflooredCapitalEnd(f) ==
  LET v == YearFigures(f)
  IN Add(Add(Add(f.capitalStart, v.contribution), v.interestOnStart),
         v.interestOnContribution)

\* C22: when startingCapital, returnPct and the factor are not negative and
\* income is at least expenses in every simulated year, every row has
\* capitalEnd >= capitalStart, capitalEnd does not decrease from one row to
\* the next, and the floor at 0 is never applied.
C22_CapitalNeverShrinks ==
  [][(pc = "loop" /\ pc' = "loop" /\ OnlySaves(p))
       => /\ Le(NewRow.capitalStart, NewRow.capitalEnd)
          /\ Len(frame.rows) > 0
               => Le(frame.rows[Len(frame.rows)].capitalEnd, NewRow.capitalEnd)
          /\ ~Lt(UnflooredCapitalEnd(frame), Fin(0))]_vars

\* capitalEnd - (capitalStart + contribution + interestOnStart +
\* interestOnContribution) over the fields of a row.
IdentityGap(row) ==
  Sub(row.capitalEnd,
      Add(Add(Add(row.capitalStart, row.contribution), row.interestOnStart),
          row.interestOnContribution))

\* |x| <= 0.02
WithinTwoCents(x) == Le(Fin(-2 * Cent), x) /\ Le(x, Fin(2 * Cent))

\* C23: in every row whose capital was not floored at 0, capitalEnd differs
\* from capitalStart + contribution + interestOnStart +
\* interestOnContribution, taken over the emitted fields, by at most 0.02.
C23_AccountingIdentity ==
  [][(pc = "loop" /\ pc' = "loop" /\ ~Lt(UnflooredCapitalEnd(frame), Fin(0)))
       => WithinTwoCents(IdentityGap(NewRow))]_vars

\* Every numeric cell of a dataset is finite.
DatasetIsFinite(data) ==
  \A i \in 1..Len(data) : \A j \in 1..Len(data[i].cells) :
    IsFinite(data[i].cells[j])

\* C24: when the rows the charts are drawn from have finite fields only,
\* every numeric cell of the ratios dataset and of the performance dataset
\* is finite, under each of the performance metrics.
C24_DatasetsFinite ==
  (/\ app.page = "script.js"
   /\ app.chartDraws > 0
   /\ \A i \in 1..Len(app.drawnRows) : RowIsFinite(app.drawnRows[i]))
    => /\ DatasetIsFinite(app.ratios)
       /\ DatasetIsFinite(app.performance)

\* C25: chartDraws moves by completed draws only: it is 0 while googleReady
\* is false, it never decreases, a call of drawAllCharts in which every
\* chart draw completes increases it by exactly 1, and a call in which a
\* draw throws leaves it unchanged, the exception being caught.
C25_CounterCountsCompletedDraws ==
  [][/\ ~app'.googleReady => app'.chartDraws = 0
     /\ app'.chartDraws >= app.chartDraws
     /\ app'.completedCalls > app.completedCalls
          => /\ app'.completedCalls = app.completedCalls + 1
             /\ app'.chartDraws = app.chartDraws + 1
     /\ app'.consoleErrors > app.consoleErrors
          => /\ app'.consoleErrors = app.consoleErrors + 1
             /\ app'.chartDraws = app.chartDraws
     /\ app'.completedCalls = app.completedCalls
          => app'.chartDraws = app.chartDraws
     /\ app'.uncaught = 0]_vars

\* C25 witness: a job of the watcher ran before the library was ready and
\* drew nothing, a later call completed its draws and a later one had a draw
\* throw: one draw is counted and one error was logged.
C25_Witness ==
  /\ app.googleReady
  /\ app.events > 0
  /\ app.completedCalls = 1
  /\ app.consoleErrors = 1
  /\ app.chartDraws = 1
  /\ app.dataDraws = Str(<<"1">>)
  /\ app.uncaught = 0

\* The result registered for a test body that ended in `outcome`.
ResultOf(r, outcome) ==
  /\ r.state = "result"
  /\ r.pass = (outcome.kind # "throws")
  /\ r.message = outcome.message

\* C26: the harness isolates failures: no exception leaves assert or
\* runTests; the tests are registered in the order of TestNames; a body that
\* throws, or whose promise rejects, gives pass = false with the error's
\* message and a body that returns gives pass = true; and runTests returns
\* exactly one settled result per registered test, in that order.
C26_HarnessIsolates ==
  /\ app.uncaught = 0
  /\ app.tpc # "aborted"
  /\ Len(app.tests) <= Len(TestNames)
  /\ \A i \in 1..Len(app.tests) :
       /\ app.tests[i].name = TestNames[i]
       /\ app.tests[i].state \in {"result", "pending"}
       /\ app.tests[i].state = "result"
            => (app.tests[i].pass <=> app.tests[i].message = NoMessage)
  /\ Len(app.tests) >= DrawsOnLoadIndex
       => ResultOf(app.tests[DrawsOnLoadIndex], DrawsOnLoadOutcome(app))
  /\ (Len(app.tests) >= MetricTestIndex /\ app.metricTest.state = "done")
       => ResultOf(app.tests[MetricTestIndex], MetricTestOutcome(app))
  /\ (Len(app.tests) >= FactorTestIndex /\ app.factorTest.state = "done")
       => ResultOf(app.tests[FactorTestIndex], FactorTestOutcome(app))
  /\ app.tpc = "settled"
       => /\ Len(app.results) = Len(TestNames)
          /\ \A i \in 1..Len(app.results) :
               /\ app.results[i].name = TestNames[i]
               /\ app.results[i].state = "result"
          /\ app.results = app.tests
  /\ app.tpc # "settled" => app.results = <<>>

\* C26 witness: in script.js the first draw and the watcher's redraw threw,
\* so the synchronous test of the draw count failed and the metric test's
\* promise was rejected; a resize then drew the charts before the factor
\* test's second read, so its promise was fulfilled; runTests resolved with
\* the fifteen results in order, the first of them a pass.
C26_Witness ==
  /\ app.page = "script.js"
  /\ app.tpc = "settled"
  /\ Len(app.results) = 15
  /\ app.results[1].pass
  /\ ~app.results[DrawsOnLoadIndex].pass
  /\ app.results[DrawsOnLoadIndex].message.text = "draw count did not increment"
  /\ ~app.results[MetricTestIndex].pass
  /\ app.results[MetricTestIndex].message.args = <<Fin(0), Fin(0)>>
  /\ app.results[FactorTestIndex].pass

====
